---- MODULE Spec2Model ----
(***************************************************************************)
(* The bitmap frame allocator of memory/src/bitmap_frame_allocator.rs.     *)
(*                                                                         *)
(* The bitmap is an array of machine words; bit b of word w stands for     *)
(* frame w * BITS_PER_BLOCK + b.  The model keeps the array as the set of  *)
(* the global indices of its 1-bits, and reads and writes it through the   *)
(* word/bit decomposition the code uses (Word, set_used, frame_is_used,    *)
(* block_is_used).  The word width is scaled down (WordBits).              *)
(***************************************************************************)
EXTENDS Integers, Sequences, FiniteSets, TLC

\* ---------------------------------------------------------------- bounds
\* Width of a machine word in bits (mem::size_of::<usize>() * 8, scaled down).
WordBits == 3
\* The memory maps of the model end in the frames TopFrame-2 .. TopFrame.
TopFrame == 6
\* deallocate_frame is called with the frames 0 .. MaxFrameArg.
MaxFrameArg == 7
\* In the runs from the wide choice of constructions, allocate_frame is
\* called while next_frame is below CursorCap.
CursorCap == 8

\* ------------------------------------------------------------- constants
PAGE_SIZE == 4096
BITS_PER_BLOCK == WordBits

\* Option::None for an Option<Frame> (frames are naturals).
None == 0 - 1
\* MAX_MEM_SIZE = 4294967296 = 16384 words of 64 bits of 4096 bytes; with
\* words of BITS_PER_BLOCK bits the ceiling is scaled to as many words.
MAX_MEM_SIZE == 16384 * BITS_PER_BLOCK * PAGE_SIZE
NUM_OF_FRAMES == MAX_MEM_SIZE \div PAGE_SIZE
ARRAY_SIZE == NUM_OF_FRAMES \div BITS_PER_BLOCK

\* ----------------------------------------------------------------- state
VARIABLES
    bitmap,            \* the set of frame indices whose bit is 1
    second_scan,       \* BitmapFrameAllocator.second_scan
    next_frame,        \* BitmapFrameAllocator.next_frame (its number)
    last_frame,        \* BitmapFrameAllocator.last_frame (its number)
    debug_assertions,  \* the build: TRUE when debug_assert! is compiled in
    panicked,          \* TRUE once a call has panicked (the kernel stops)
    boot,              \* the arguments new() was called with
    call,              \* the last call: [op, frame] (frame: result or argument)
    held,              \* history: frames reserved by new() or handed out, and
                       \* not passed to deallocate_frame since
    chase,             \* history: the freed frame whose reuse is awaited,
                       \* or None
    waited             \* history: allocate_frame calls made while awaiting it

vars == <<bitmap, second_scan, next_frame, last_frame, debug_assertions,
          panicked, boot, call, held, chase, waited>>

\* ------------------------------------------------------------- Frame type
\* Frame::containing_address
containing_address(address) == address \div PAGE_SIZE

\* ------------------------------------------------------------ the bitmap
\* The frames whose bits live in word `index`.
BlockFrames(index) ==
    { index * BITS_PER_BLOCK + b : b \in 0 .. BITS_PER_BLOCK - 1 }

\* self.bitmap[index], as the set of the positions of its 1-bits
Word(bm, index) ==
    { b \in 0 .. BITS_PER_BLOCK - 1 : index * BITS_PER_BLOCK + b \in bm }

\* usize::MAX: the word with every bit set
USIZE_MAX == 0 .. BITS_PER_BLOCK - 1

\* The array with word `index` replaced by `word`.
StoreWord(bm, index, word) ==
    (bm \ BlockFrames(index)) \cup { index * BITS_PER_BLOCK + b : b \in word }

\* set_used with the word assigned instead of or-ed / and-ed.
set_used_assign(bm, index, value) ==
    LET w == index \div BITS_PER_BLOCK
        b == index % BITS_PER_BLOCK
    IN  IF value
        THEN StoreWord(bm, w, {b})
        ELSE StoreWord(bm, w, USIZE_MAX \ {b})

\* set_used that flips the bit when asked to set it.
set_used_toggle(bm, index, value) ==
    LET w == index \div BITS_PER_BLOCK
        b == index % BITS_PER_BLOCK
    IN  IF value
        THEN StoreWord(bm, w, (Word(bm, w) \cup {b})
                              \ (Word(bm, w) \cap {b}))
        ELSE StoreWord(bm, w, Word(bm, w) \ {b})

set_used(bm, index, value) ==
    LET w == index \div BITS_PER_BLOCK
        b == index % BITS_PER_BLOCK
    IN  IF value
        THEN StoreWord(bm, w, Word(bm, w) \cup {b})
        ELSE StoreWord(bm, w, Word(bm, w) \ {b})

\* first_frame_in_block, one frame too far.
first_frame_in_block_off(block_number) == block_number * BITS_PER_BLOCK + 1

first_frame_in_block(block_number) == block_number * BITS_PER_BLOCK

last_frame_in_block(block_number) ==
    block_number * BITS_PER_BLOCK + BITS_PER_BLOCK - 1

get_block_number(frame_number) == frame_number \div BITS_PER_BLOCK

block_is_used(bm, index) == Word(bm, index) = USIZE_MAX

frame_is_used(bm, index) ==
    (index % BITS_PER_BLOCK) \in Word(bm, index \div BITS_PER_BLOCK)

\* ---------------------------------------------------------- construction
\* What the multiboot2 memory-area iterator yields for a memory map: the
\* areas of type 1 (available RAM), in the order of the map.
MemoryAreaIter(memory_map) ==
    SelectSeq(memory_map, LAMBDA area : area.typ = 1)

\* Iterator::max_by_key(|area| area.base_addr): the last of the areas with
\* the largest base address.
max_by_key_base_addr(areas) ==
    LET top == CHOOSE i \in DOMAIN areas :
                   /\ \A j \in DOMAIN areas :
                          areas[j].base_addr <= areas[i].base_addr
                   /\ \A j \in DOMAIN areas :
                          areas[j].base_addr = areas[i].base_addr => j <= i
    IN  areas[top]

RECURSIVE set_range_used(_, _, _)
\* for frame in Frame::range_inclusive(start, end) { set_used(frame, true) }:
\* nothing when start > end, else the frames start, start + 1, ..., end in
\* this order.  The loop is split in halves, and the first half is compared
\* (which evaluates it) before the second is entered, to keep the
\* evaluation of long ranges shallow.
set_range_used(bm, start, end) ==
    IF start > end
    THEN bm
    ELSE IF start = end
         THEN set_used(bm, start, TRUE)
         ELSE LET mid == (start + end) \div 2
                  first_half == set_range_used(bm, start, mid)
              IN  IF first_half = first_half
                  THEN set_range_used(first_half, mid + 1, end)
                  ELSE first_half

RECURSIVE map_gaps(_, _)
\* The loop of map_memory_areas over the adjacent pairs (area1, area2) of
\* memory_areas.zip(memory_areas.skip(1)).
map_gaps(bm, areas) ==
    IF Len(areas) < 2
    THEN bm
    ELSE LET area1 == areas[Len(areas) - 1]
             area2 == areas[Len(areas)]
             start_occupied ==
                 containing_address(area1.base_addr + area1.length)
             end_occupied == containing_address(area2.base_addr - 1)
         IN  set_range_used(map_gaps(bm, SubSeq(areas, 1, Len(areas) - 1)),
                            start_occupied, end_occupied)

\* last_frame as map_memory_areas computes it
map_last_frame(areas) ==
    LET last_area == max_by_key_base_addr(areas)
    IN  containing_address(last_area.base_addr + last_area.length)

\* map_memory_areas without the bit of last_frame.
map_memory_areas_no_guard(bm, areas) == map_gaps(bm, areas)

map_memory_areas(bm, areas) ==
    map_gaps(set_used(bm, map_last_frame(areas), TRUE), areas)

\* map_kernel with the last frame of the range left out.
map_kernel_exclusive(bm, kernel_start, kernel_end) ==
    set_range_used(bm, containing_address(kernel_start),
                   containing_address(kernel_end) - 1)

map_kernel(bm, kernel_start, kernel_end) ==
    set_range_used(bm, containing_address(kernel_start),
                   containing_address(kernel_end))

map_multiboot(bm, multiboot_start, multiboot_end) ==
    set_range_used(bm, containing_address(multiboot_start),
                   containing_address(multiboot_end))

\* static mut BITMAP: every word 0
BITMAP == {}

\* The frames of the adjacent pairs of areas that map_memory_areas marks.
RECURSIVE gap_frames(_)
gap_frames(areas) ==
    IF Len(areas) < 2 THEN {}
    ELSE (containing_address(areas[1].base_addr + areas[1].length) ..
          containing_address(areas[2].base_addr - 1))
         \cup gap_frames(Tail(areas))

\* Every frame index new() passes to set_used.
marked_by_new(b) ==
    {map_last_frame(MemoryAreaIter(b.memory_map))}
    \cup gap_frames(MemoryAreaIter(b.memory_map))
    \cup (containing_address(b.kernel_start) ..
          containing_address(b.kernel_end))
    \cup (containing_address(b.multiboot_start) ..
          containing_address(b.multiboot_end))

\* self.bitmap[index / BITS_PER_BLOCK] is bounds-checked: new() panics when
\* a frame it marks lies in a word at or past ARRAY_SIZE.
new_panics(b) ==
    \E index \in marked_by_new(b) : ~(get_block_number(index) < ARRAY_SIZE)

\* BitmapFrameAllocator::new: the bitmap it leaves
new_bitmap(bm, b) ==
    map_multiboot(
        map_kernel(map_memory_areas(bm, MemoryAreaIter(b.memory_map)),
                   b.kernel_start, b.kernel_end),
        b.multiboot_start, b.multiboot_end)

\* ------------------------------------------------------------ allocation
RECURSIVE scan_block_short(_, _, _)
\* The while loop of find_free_frame_in_block, stopping one frame early.
scan_block_short(bm, nf, block_number) ==
    IF nf < last_frame_in_block(block_number)
    THEN IF frame_is_used(bm, nf)
         THEN LET rest == scan_block_short(bm, nf + 1, block_number)
              IN  [rest EXCEPT !.tested = @ \cup {nf}]
         ELSE [frame |-> nf, bitmap |-> set_used(bm, nf, TRUE),
               next_frame |-> nf + 1, tested |-> {nf}]
    ELSE [frame |-> None, bitmap |-> bm, next_frame |-> nf, tested |-> {}]

RECURSIVE scan_block(_, _, _)
\* The while loop of find_free_frame_in_block; `tested` collects the frames
\* it calls frame_is_used on.
scan_block(bm, nf, block_number) ==
    IF nf <= last_frame_in_block(block_number)
    THEN IF frame_is_used(bm, nf)
         THEN LET rest == scan_block(bm, nf + 1, block_number)
              IN  [rest EXCEPT !.tested = @ \cup {nf}]
         ELSE [frame |-> nf, bitmap |-> set_used(bm, nf, TRUE),
               next_frame |-> nf + 1, tested |-> {nf}]
    ELSE [frame |-> None, bitmap |-> bm, next_frame |-> nf, tested |-> {}]

\* find_free_frame_in_block without the test of the whole word.
find_free_frame_in_block_bitwise(bm, nf, block_number) ==
    scan_block(bm, nf, block_number)

find_free_frame_in_block(bm, nf, block_number) ==
    IF block_is_used(bm, block_number)
    THEN [frame |-> None, bitmap |-> bm,
          next_frame |-> first_frame_in_block(block_number + 1),
          tested |-> {}]
    ELSE scan_block(bm, nf, block_number)

\* The end of both passes without the reset of second_scan.
exhausted_keep_flag(bm, nf) ==
    [frame |-> None, bitmap |-> bm, next_frame |-> nf, second_scan |-> TRUE]

\* What allocate_frame does once both passes are over.
exhausted(bm, nf) ==
    [frame |-> None, bitmap |-> bm, next_frame |-> nf, second_scan |-> FALSE]

\* The return of a found frame with the cursor one frame too far.
found_skip(r, ss) ==
    [frame |-> r.frame, bitmap |-> r.bitmap, next_frame |-> r.next_frame + 1,
     second_scan |-> ss]

\* What allocate_frame does when find_free_frame_in_block returned Some.
found(r, ss) ==
    [frame |-> r.frame, bitmap |-> r.bitmap, next_frame |-> r.next_frame,
     second_scan |-> ss]

\* One iteration of the loop of allocate_frame in which the wraparound
\* does not set second_scan.
loop_iteration_no_flag(bm, nf, lf, ss) ==
    IF ~(nf >= lf)
    THEN LET r == find_free_frame_in_block(bm, nf, get_block_number(nf))
         IN  [returned |-> r.frame # None, frame |-> r.frame,
              bitmap |-> r.bitmap, next_frame |-> r.next_frame,
              second_scan |-> ss]
    ELSE [returned |-> FALSE, frame |-> None, bitmap |-> bm,
          next_frame |-> 0, second_scan |-> ss]

\* One iteration of the loop of allocate_frame: `returned` tells whether
\* the iteration ends the call, with `frame` as its result.
loop_iteration(bm, nf, lf, ss) ==
    IF ~(nf >= lf)
    THEN LET r == find_free_frame_in_block(bm, nf, get_block_number(nf))
         IN  [returned |-> r.frame # None, frame |-> r.frame,
              bitmap |-> r.bitmap, next_frame |-> r.next_frame,
              second_scan |-> ss]
    ELSE IF ~ss
         THEN [returned |-> FALSE, frame |-> None, bitmap |-> bm,
               next_frame |-> 0, second_scan |-> TRUE]
         ELSE [returned |-> TRUE, frame |-> None, bitmap |-> bm,
               next_frame |-> nf, second_scan |-> FALSE]

RECURSIVE allocate_frame_no_wrap(_, _, _, _)
\* allocate_frame without the wraparound pass.
allocate_frame_no_wrap(bm, nf, lf, ss) ==
    IF ~(nf >= lf)
    THEN LET r == find_free_frame_in_block(bm, nf, get_block_number(nf))
         IN  IF r.frame # None
             THEN found(r, ss)
             ELSE allocate_frame_no_wrap(r.bitmap, r.next_frame, lf, ss)
    ELSE exhausted(bm, nf)

RECURSIVE allocate_frame(_, _, _, _)
\* The loop of allocate_frame, from the state (bm, nf, lf, ss).
allocate_frame(bm, nf, lf, ss) ==
    IF ~(nf >= lf)
    THEN LET r == find_free_frame_in_block(bm, nf, get_block_number(nf))
         IN  IF r.frame # None
             THEN found(r, ss)
             ELSE allocate_frame(r.bitmap, r.next_frame, lf, ss)
    ELSE IF ~ss
         THEN allocate_frame(bm, 0, lf, TRUE)
         ELSE exhausted(bm, nf)

\* ------------------------------------------------------ the memory maps
Area(base_addr, length, typ) ==
    [base_addr |-> base_addr, length |-> length, typ |-> typ]

\* The ends of the last area: last_frame is TopFrame-2, TopFrame-1, TopFrame.
Tops ==
    { (TopFrame - 2) * PAGE_SIZE + 3072,
      (TopFrame - 1) * PAGE_SIZE + 1,
      TopFrame * PAGE_SIZE }

\* One usable area; usable, reserved, usable (the shape of the reference
\* layout); a reserved area below the usable one.
MemoryMaps ==
    UNION { { << Area(0, top, 1) >>,
              << Area(0, 7168, 1), Area(7168, 5120, 2),
                 Area(12288, top - 12288, 1) >>,
              << Area(0, 4096, 2), Area(4096, top - 4096, 1) >> }
            : top \in Tops }

\* The end of the last area of a memory map.
TopOf(m) == m[Len(m)].base_addr + m[Len(m)].length

\* The kernel image: within frame 1, or all the memory below the top.
KernelEnds(m) == { 4528, TopOf(m) - 1 }

Boots ==
    { [memory_map |-> m,
       kernel_start |-> IF e = 4528 THEN 4096 ELSE 0, kernel_end |-> e,
       multiboot_start |-> 9112, multiboot_end |-> 10912]
      : <<m, e>> \in UNION { { <<m, e>> : e \in KernelEnds(m) }
                             : m \in MemoryMaps } }

\* The loader structure: within frame 2, or within frame 3.
BootsWide ==
    { [memory_map |-> m,
       kernel_start |-> IF e = 4528 THEN 4096 ELSE 0, kernel_end |-> e,
       multiboot_start |-> s, multiboot_end |-> s + 1800]
      : <<m, e, s>> \in UNION { { <<m, e, s>> : e \in KernelEnds(m),
                                                s \in {9112, 13208} }
                                : m \in MemoryMaps } }

BootsReuse == Boots

\* The boot of tests::areas_are_mapped_correctly: the areas [0x0, 0x9fc00)
\* usable, [0x9fc00, 0x100000) reserved, [0x100000, 0x7fe0000) usable, the
\* kernel [0x100000, 0x13a1b0], the loader structure [0x13e398, 0x13eaa0],
\* on a zeroed bitmap.
ReferenceBoot ==
    [memory_map |-> << Area(0, 654336, 1), Area(654336, 394240, 0),
                       Area(1048576, 133038080, 1) >>,
     kernel_start |-> 1048576, kernel_end |-> 1286576,
     multiboot_start |-> 1303448, multiboot_end |-> 1305248,
     bitmap |-> BITMAP]

\* Areas on a grid of bases and lengths, usable (1) or reserved (2).
GridAreas ==
    { Area(b, l, t) : b \in {0, 4096, 7168, 12288, 16384},
                      l \in {3072, 4096, 9216}, t \in {1, 2} }

\* Memory maps of one to three grid areas with increasing bases (an area
\* may end above the base, or the end, of the next one), at least one of
\* them usable.
GridMaps ==
    { m \in { <<a>> : a \in GridAreas }
            \cup { <<a, b>> : a \in GridAreas, b \in GridAreas }
            \cup { <<a, b, c>> : a \in GridAreas, b \in GridAreas,
                                 c \in { Area(12288, 9216, 1),
                                         Area(12288, 4096, 1) } } :
        /\ \A i \in 1 .. Len(m) - 1 : m[i].base_addr < m[i + 1].base_addr
        /\ \E i \in DOMAIN m : m[i].typ = 1 }

\* The constructions of the wide choice: a grid map with a kernel of one or
\* three frames and the loader structure in frame 2, on a bitmap that is
\* zeroed or has the bits 0 and 5 set; and the reference boot.
BootsNew ==
    { [memory_map |-> m, kernel_start |-> 4096, kernel_end |-> e,
       multiboot_start |-> 9112, multiboot_end |-> 10912, bitmap |-> bm]
      : m \in GridMaps, e \in {4528, 13000}, bm \in {BITMAP, {0, 5}} }
    \cup {ReferenceBoot}

\* The frames of the words the scan of [0, last_frame) reads.
ScannedFrames == (get_block_number(last_frame - 1) + 1) * BITS_PER_BLOCK

\* `waited` stops counting here.
WaitCap == (get_block_number(TopFrame) + 1) * BITS_PER_BLOCK + 2

\* --------------------------------------------------------------- actions
InitWith(boots) ==
    /\ boot \in boots
    /\ bitmap = new_bitmap(BITMAP, boot)
    /\ second_scan = FALSE
    /\ next_frame = containing_address(0)
    /\ last_frame = map_last_frame(MemoryAreaIter(boot.memory_map))
    /\ debug_assertions \in BOOLEAN
    /\ panicked = FALSE
    /\ call = [op |-> "new", frame |-> None]
    /\ held = bitmap
    /\ chase = None
    /\ waited = 0

Init == InitWith(Boots)

\* Constructions at the address ceiling: one usable area that ends one byte
\* below MAX_MEM_SIZE or exactly at it, two usable areas of one page below
\* the ceiling with a page between them, and one small usable area; the
\* kernel in frame 1, the loader structure in frame 2, a zeroed bitmap.
BootsCeil ==
    { [memory_map |-> m, kernel_start |-> 4096, kernel_end |-> 4528,
       multiboot_start |-> 9112, multiboot_end |-> 10912, bitmap |-> BITMAP]
      : m \in { << Area(0, MAX_MEM_SIZE - 1, 1) >>,
                << Area(0, MAX_MEM_SIZE, 1) >>,
                << Area(MAX_MEM_SIZE - 3 * PAGE_SIZE, PAGE_SIZE, 1),
                   Area(MAX_MEM_SIZE - PAGE_SIZE, PAGE_SIZE, 1) >>,
                << Area(0, TopFrame * PAGE_SIZE, 1) >> } }

\* new() at the address ceiling: it panics on an index out of bounds, and
\* there is no allocator then.
InitCeil ==
    /\ boot \in BootsCeil
    /\ panicked = new_panics(boot)
    /\ bitmap = IF panicked THEN boot.bitmap
                ELSE new_bitmap(boot.bitmap, boot)
    /\ second_scan = FALSE
    /\ next_frame = containing_address(0)
    /\ last_frame = map_last_frame(MemoryAreaIter(boot.memory_map))
    /\ debug_assertions \in BOOLEAN
    /\ call = [op |-> "new", frame |-> None]
    /\ held = bitmap
    /\ chase = None
    /\ waited = 0

\* new() on the bitmap of the boot.
InitNew ==
    /\ boot \in BootsNew
    /\ bitmap = new_bitmap(boot.bitmap, boot)
    /\ second_scan = FALSE
    /\ next_frame = containing_address(0)
    /\ last_frame = map_last_frame(MemoryAreaIter(boot.memory_map))
    /\ debug_assertions \in BOOLEAN
    /\ panicked = FALSE
    /\ call = [op |-> "new", frame |-> None]
    /\ held = bitmap
    /\ chase = None
    /\ waited = 0

Allocate ==
    /\ ~panicked
    /\ LET r == allocate_frame(bitmap, next_frame, last_frame, second_scan)
       IN  /\ bitmap' = r.bitmap
           /\ next_frame' = r.next_frame
           /\ second_scan' = r.second_scan
           /\ call' = [op |-> "allocate", frame |-> r.frame]
           /\ held' = IF r.frame = None THEN held ELSE held \cup {r.frame}
           /\ waited' = IF chase = None \/ waited = None THEN waited
                         ELSE IF r.frame = chase THEN None
                         ELSE IF waited < WaitCap THEN waited + 1
                         ELSE waited
    /\ UNCHANGED <<last_frame, debug_assertions, panicked, boot, chase>>

\* deallocate_frame with a cursor that steps back to the freed frame.
deallocate_frame_rewind(frame) ==
    IF debug_assertions /\ ~(frame < last_frame)
    THEN /\ panicked' = TRUE
         /\ UNCHANGED <<bitmap, held, second_scan, next_frame, last_frame>>
    ELSE /\ bitmap' = set_used(bitmap, frame, FALSE)
         /\ held' = held \ {frame}
         /\ next_frame' = IF frame < next_frame THEN frame ELSE next_frame
         /\ UNCHANGED <<panicked, second_scan, last_frame>>

\* deallocate_frame(frame): debug_assert!(frame < self.last_frame) panics in
\* a build with debug assertions and is compiled out otherwise.
deallocate_frame(frame) ==
    IF debug_assertions /\ ~(frame < last_frame)
    THEN /\ panicked' = TRUE
         /\ UNCHANGED <<bitmap, held, second_scan, next_frame, last_frame>>
    ELSE /\ bitmap' = set_used(bitmap, frame, FALSE)
         /\ held' = held \ {frame}
         /\ UNCHANGED <<panicked, second_scan, next_frame, last_frame>>

Deallocate ==
    /\ ~panicked
    /\ chase = None
    /\ \E frame \in 0 .. MaxFrameArg :
          /\ deallocate_frame(frame)
          /\ call' = [op |-> "deallocate", frame |-> frame]
    /\ UNCHANGED <<debug_assertions, boot, chase, waited>>

\* deallocate_frame of a held frame below last_frame, after which the
\* caller only allocates; `waited` counts its calls until the frame comes
\* back (None from then on).
DeallocateLast ==
    /\ ~panicked
    /\ chase = None
    /\ \E frame \in 0 .. MaxFrameArg :
          /\ frame < last_frame
          /\ frame \in held
          /\ deallocate_frame(frame)
          /\ call' = [op |-> "deallocate", frame |-> frame]
          /\ chase' = frame
    /\ UNCHANGED <<debug_assertions, boot, waited>>

Next == Allocate \/ Deallocate

Spec == Init /\ [][Next]_vars

\* Runs without deallocate_frame, from a wider choice of boot layouts.
InitWide == InitWith(BootsWide)

NextAllocOnly == Allocate

SpecAllocOnly == InitWide /\ [][NextAllocOnly]_vars

\* Runs in which, after some deallocate_frame, the caller keeps calling
\* allocate_frame and nothing else.
InitReuse == InitWith(BootsReuse)

NextReuse == Allocate \/ Deallocate \/ DeallocateLast

SpecReuse == InitReuse /\ [][NextReuse]_vars

\* allocate_frame one loop iteration at a time: call.op = "loop" while the
\* call is inside its loop.
AllocateEnter ==
    /\ ~panicked
    /\ call.op # "loop"
    /\ call' = [op |-> "loop", frame |-> None]
    /\ UNCHANGED <<bitmap, second_scan, next_frame, last_frame,
                   debug_assertions, panicked, boot, held, chase, waited>>

AllocateLoop ==
    /\ call.op = "loop"
    /\ LET r == loop_iteration(bitmap, next_frame, last_frame, second_scan)
       IN  /\ bitmap' = r.bitmap
           /\ next_frame' = r.next_frame
           /\ second_scan' = r.second_scan
           /\ call' = IF r.returned
                      THEN [op |-> "allocate", frame |-> r.frame]
                      ELSE call
           /\ held' = IF r.frame = None THEN held ELSE held \cup {r.frame}
    /\ UNCHANGED <<last_frame, debug_assertions, panicked, boot, chase,
                   waited>>

\* deallocate_frame runs between two calls of allocate_frame.
DeallocateBetweenCalls == call.op # "loop" /\ Deallocate

InitLoop == InitWith(Boots)

NextLoop == AllocateEnter \/ AllocateLoop \/ DeallocateBetweenCalls

SpecLoop == InitLoop /\ [][NextLoop]_vars

\* Runs from the wide choice of constructions; the caller allocates while
\* the cursor is below CursorCap.
AllocateBelowCap == next_frame < CursorCap /\ Allocate

NextNew == AllocateBelowCap

SpecNew == InitNew /\ [][NextNew]_vars

\* Runs from the constructions at the address ceiling.
NextCeil == AllocateBelowCap \/ Deallocate

SpecCeil == InitCeil /\ [][NextCeil]_vars

\* ------------------------------------------------------- claim helpers
AllocReturned == call.op = "allocate" /\ call.frame # None
AllocFailed == call.op = "allocate" /\ call.frame = None

\* The free frames of [lo, hi) in the current bitmap.
FreeIn(lo, hi) == { f \in lo .. hi - 1 : ~frame_is_used(bitmap, f) }

Lowest(S) == CHOOSE x \in S : \A y \in S : x <= y

\* ---------------------------------------------------------------- C1
\* C1: when allocate_frame returns Some(f), the bit of f was clear before
\* the call and is set after it, no other bit changed, and f was not held
\* (neither reserved by new() nor handed out) without a deallocate_frame(f)
\* since.
C1_AllocateTakesOneFreeFrame ==
    [][ (call'.op = "allocate" /\ call'.frame # None) =>
            /\ ~frame_is_used(bitmap, call'.frame)
            /\ frame_is_used(bitmap', call'.frame)
            /\ bitmap' = bitmap \cup {call'.frame}
            /\ call'.frame \notin held ]_vars

\* A frame handed out in the wraparound pass, above frames still reserved.
C1_Witness ==
    /\ AllocReturned /\ second_scan
    /\ \E g \in bitmap : g < call.frame
    /\ call.frame \in held

\* ---------------------------------------------------------------- C2
\* C2: every frame returned by allocate_frame is below last_frame.
C2_ReturnedBelowLastFrame == AllocReturned => call.frame < last_frame

\* ---------------------------------------------------------------- C3
\* C3: whenever allocate_frame returns None, every frame of [0, last_frame)
\* has its bit set.
C3_NoneOnlyWhenFull == AllocFailed => FreeIn(0, last_frame) = {}

\* ---------------------------------------------------------------- C4
\* C4: on a freshly constructed allocator whose frames [0, last_frame) are
\* all used, the first allocate_frame returns None.
C4_FreshFullReturnsNone ==
    [][ (call.op = "new" /\ FreeIn(0, last_frame) = {}
         /\ call'.op = "allocate") => call'.frame = None ]_vars

\* ---------------------------------------------------------------- C5
\* C5: allocate_frame returns the lowest free frame of [next_frame,
\* last_frame) when there is one; otherwise, when second_scan is false and
\* [0, last_frame) has a free frame, the lowest free frame of [0, last_frame).
C5_LowestFreeWrappingOnce ==
    [][ call'.op = "allocate" =>
            IF FreeIn(next_frame, last_frame) # {}
            THEN call'.frame = Lowest(FreeIn(next_frame, last_frame))
            ELSE (~second_scan /\ FreeIn(0, last_frame) # {}) =>
                     call'.frame = Lowest(FreeIn(0, last_frame)) ]_vars

\* ---------------------------------------------------------------- C6
\* C6: without deallocate_frame, two consecutive successful allocate_frame
\* calls return f1 < f2, and every frame strictly between them was used
\* when the second call was made.
C6_MonotonicNoSkip ==
    [][ (AllocReturned /\ call'.op = "allocate" /\ call'.frame # None) =>
            /\ call.frame < call'.frame
            /\ \A g \in call.frame + 1 .. call'.frame - 1 :
                   frame_is_used(bitmap, g) ]_vars

\* Frame 0 was free after new() and was handed out; the next call handed
\* out frame 3 or above, stepping over the reserved frames 1 and 2.
C6_Witness ==
    /\ AllocReturned /\ call.frame >= 3
    /\ ~frame_is_used(new_bitmap(BITMAP, boot), 0)
    /\ {1, 2} \subseteq new_bitmap(BITMAP, boot)
    /\ next_frame = call.frame + 1

\* ---------------------------------------------------------------- C7
\* C7: deallocate_frame(f) with f < last_frame clears the bit of f and
\* changes nothing else (other bits, next_frame, last_frame, second_scan);
\* and when f is below next_frame, the next allocate_frame does not return
\* f as long as [next_frame, last_frame) has a free frame.
C7_DeallocateClearsOneBit ==
    [][ /\ (call'.op = "deallocate" /\ call'.frame < last_frame) =>
               /\ bitmap' = bitmap \ {call'.frame}
               /\ ~frame_is_used(bitmap', call'.frame)
               /\ next_frame' = next_frame
               /\ last_frame' = last_frame
               /\ second_scan' = second_scan
               /\ ~panicked'
        /\ (/\ call.op = "deallocate" /\ call.frame < last_frame
            /\ call.frame < next_frame
            /\ FreeIn(next_frame, last_frame) # {}
            /\ call'.op = "allocate") => call'.frame # call.frame ]_vars

\* A frame behind the cursor was freed, a frame ahead of the cursor was
\* free, and the next allocate_frame returned the one ahead.
C7_Witness ==
    /\ AllocReturned
    /\ \E f \in 0 .. call.frame - 1 : ~frame_is_used(bitmap, f)
    /\ call.frame < last_frame
    /\ ~second_scan

\* ---------------------------------------------------------------- C8
\* C8: a held frame f < last_frame passed to deallocate_frame is free right
\* after the call, and when the caller then only allocates, f is returned
\* again by one of its next ScannedFrames + 1 allocate_frame calls.
C8_FreedFrameIsReused ==
    chase # None =>
        /\ call.op = "deallocate" => ~frame_is_used(bitmap, chase)
        /\ waited # None => waited <= ScannedFrames

\* A frame that allocate_frame had handed out was freed behind the cursor
\* and came back in a wraparound pass.
C8_Witness ==
    /\ chase # None /\ AllocReturned /\ call.frame = chase
    /\ waited = None
    /\ ~frame_is_used(new_bitmap(BITMAP, boot), chase)
    /\ second_scan

\* ---------------------------------------------------------------- C9
\* C9: deallocate_frame(f) with f >= last_frame takes the fatal path and
\* clears no bit.
C9_DeallocateGuard ==
    [][ (call'.op = "deallocate" /\ call'.frame >= last_frame) =>
            (panicked' /\ bitmap' = bitmap) ]_vars

\* ---------------------------------------------------------------- C10
\* The frames that lie wholly in [base_addr, base_addr + length).
FramesWithin(area) ==
    { f \in 0 .. containing_address(area.base_addr + area.length) :
          /\ area.base_addr <= f * PAGE_SIZE
          /\ (f + 1) * PAGE_SIZE <= area.base_addr + area.length }

\* C10: after construction every frame that lies in a memory area whose
\* type is not usable is marked used.
C10_NonUsableAreasReserved ==
    call.op = "new" =>
        \A i \in DOMAIN boot.memory_map :
            boot.memory_map[i].typ # 1 =>
                \A f \in FramesWithin(boot.memory_map[i]) :
                    frame_is_used(bitmap, f)

\* ---------------------------------------------------------------- C11
\* Whether the frame containing `address` is marked used.
UsedAt(address) == frame_is_used(bitmap, containing_address(address))

\* C11: after new() on the reference boot the frame of 0x0 is free, the
\* frame of 0x9f000 used, every frame from the one of 0x100000 to the one
\* of 0x13a1b0 used, the frame of 0x13b000 free, every frame from the one
\* of 0x13e398 to the one of 0x13eaa0 used, and the frame of 0x7fe0000 used.
C11_ReferenceLayout ==
    (call.op = "new" /\ boot = ReferenceBoot) =>
        /\ ~UsedAt(0)
        /\ UsedAt(651264)
        /\ \A f \in containing_address(1048576) ..
                     containing_address(1286576) : frame_is_used(bitmap, f)
        /\ ~UsedAt(1290240)
        /\ \A f \in containing_address(1303448) ..
                     containing_address(1305248) : frame_is_used(bitmap, f)
        /\ UsedAt(134086656)

\* The allocator right after new() on the reference boot.
C11_Witness ==
    /\ call.op = "new" /\ boot = ReferenceBoot
    /\ last_frame = containing_address(134086656)
    /\ UsedAt(1286576)

\* ---------------------------------------------------------------- C12
\* The regions new() was given, as the iterator yields them.
Regions == MemoryAreaIter(boot.memory_map)

\* The highest end address base + length over all regions.
HighestEnd ==
    CHOOSE e \in { Regions[i].base_addr + Regions[i].length
                   : i \in DOMAIN Regions } :
        \A i \in DOMAIN Regions :
            Regions[i].base_addr + Regions[i].length <= e

\* C12: after new(), last_frame is the frame containing the highest
\* base + length over all regions, and the bit of that frame is set.
C12_LastFrameIsHighestEnd ==
    call.op = "new" =>
        /\ last_frame = containing_address(HighestEnd)
        /\ frame_is_used(bitmap, containing_address(HighestEnd))

\* ---------------------------------------------------------------- C13
\* C13: for a memory map within the ceiling (every base + length <=
\* MAX_MEM_SIZE) the word index of every frame that new() marks, that
\* allocate_frame returns and that deallocate_frame clears is below
\* ARRAY_SIZE, and new() does not panic.
C13_IndicesInRange ==
    (\A i \in DOMAIN boot.memory_map :
        boot.memory_map[i].base_addr + boot.memory_map[i].length
            <= MAX_MEM_SIZE)
    => /\ call.op = "new" =>
            /\ \A index \in marked_by_new(boot) :
                   get_block_number(index) < ARRAY_SIZE
            /\ ~panicked
       /\ (call.op = "allocate" /\ call.frame # None) =>
            get_block_number(call.frame) < ARRAY_SIZE
       /\ (call.op = "deallocate" /\ ~panicked) =>
            get_block_number(call.frame) < ARRAY_SIZE

\* ---------------------------------------------------------------- C14
\* The cursor never passes the first frame after the block of the last
\* frame below last_frame.
LoopSpan ==
    IF last_frame = 0 THEN 0
    ELSE first_frame_in_block(get_block_number(last_frame - 1) + 1)

\* What is left of the call: the pass before the wraparound counts
\* LoopSpan + 1, and each pass the frames up to LoopSpan.
LoopRank ==
    (IF second_scan THEN 0 ELSE LoopSpan + 1) + (LoopSpan - next_frame)

\* C14: allocate_frame terminates: every iteration of its loop returns,
\* or increases next_frame, or switches second_scan from false to true;
\* and every iteration that does not return decreases LoopRank, which is
\* never negative.
C14_AllocateTerminates ==
    [][ call.op = "loop" =>
          /\ LoopRank >= 0
          /\ \/ call'.op = "allocate"
             \/ next_frame' > next_frame
             \/ ~second_scan /\ second_scan'
          /\ \/ call'.op = "allocate"
             \/ LoopRank' < LoopRank /\ LoopRank' >= 0 ]_vars

\* A call that went through the wraparound and both passes and returned
\* None.
C14_Witness ==
    /\ call = [op |-> "allocate", frame |-> None]
    /\ last_frame > BITS_PER_BLOCK
    /\ next_frame >= last_frame
    /\ ~second_scan

\* ---------------------------------------------------------------- C15
\* C15: in every loop iteration of allocate_frame that looks at a block,
\* no frame that frame_is_used is called on lies in a word that is all
\* ones (the bitmap does not change before the last of these tests); and
\* when the word of next_frame is all ones no frame is tested, nothing is
\* returned, the bitmap stays and next_frame becomes the first frame of
\* the next block.
C15_BlockSkip ==
    [][ (call.op = "loop" /\ ~(next_frame >= last_frame)) =>
          LET block_number == get_block_number(next_frame)
              r == find_free_frame_in_block(bitmap, next_frame, block_number)
          IN  /\ \A f \in r.tested :
                     ~block_is_used(bitmap, get_block_number(f))
              /\ block_is_used(bitmap, block_number) =>
                     /\ r.tested = {}
                     /\ call'.op = "loop"
                     /\ bitmap' = bitmap
                     /\ next_frame' =
                            first_frame_in_block(block_number + 1) ]_vars

\* Inside a call, right after the full block 0 was passed, with block 1
\* still to be looked at.
C15_Witness ==
    /\ call.op = "loop"
    /\ block_is_used(bitmap, 0)
    /\ next_frame = first_frame_in_block(1)
    /\ next_frame < last_frame

\* ---------------------------------------------------------------- C16
\* The three marking steps of new() on the boot's bitmap, in the orders
\* other than the one new() takes.
OtherOrders ==
    LET areas == MemoryAreaIter(boot.memory_map)
        A(bm) == map_memory_areas(bm, areas)
        K(bm) == map_kernel(bm, boot.kernel_start, boot.kernel_end)
        M(bm) == map_multiboot(bm, boot.multiboot_start, boot.multiboot_end)
    IN  { K(M(A(boot.bitmap))), M(A(K(boot.bitmap))), A(M(K(boot.bitmap))),
          K(A(M(boot.bitmap))), A(K(M(boot.bitmap))) }

\* C16: set_used(i, true) applied twice leaves the bitmap as applying it
\* once does, for every bitmap the runs reach and every frame index up to
\* last_frame; and the bitmap new() leaves is the one every other order of
\* its three marking steps leaves.
C16_MarkingIdempotent ==
    /\ \A i \in 0 .. last_frame :
           set_used(set_used(bitmap, i, TRUE), i, TRUE)
               = set_used(bitmap, i, TRUE)
    /\ call.op = "new" => OtherOrders = {bitmap}

\* new() marked frame 2 twice, as part of the kernel and as the frame of
\* the loader structure.
C16_Witness ==
    /\ call.op = "new"
    /\ containing_address(boot.kernel_start) < 2
    /\ containing_address(boot.kernel_end) > 2
    /\ containing_address(boot.multiboot_start) = 2
    /\ frame_is_used(bitmap, 2)

\* ---------------------------------------------------------------- C17
\* The regions are in increasing base order and do not overlap.
RegionsDisjoint ==
    \A i \in 1 .. Len(Regions) - 1 :
        /\ Regions[i].base_addr < Regions[i + 1].base_addr
        /\ Regions[i].base_addr + Regions[i].length
               <= Regions[i + 1].base_addr

\* The frames between the end of region i and the base of region i + 1.
GapAfter(i) ==
    { f \in 0 .. last_frame :
        /\ f >= containing_address(Regions[i].base_addr + Regions[i].length)
        /\ f <= containing_address(Regions[i + 1].base_addr - 1) }

\* The frames of the addresses from `start` to `end`, both included.
FramesOf(start, end) ==
    { f \in 0 .. containing_address(end) : f >= containing_address(start) }

\* C17: for regions in increasing base order that do not overlap, the
\* bitmap after new() is the input bitmap with these bits added: last_frame,
\* the frames between each region and the next, the frames of the kernel
\* and the frames of the loader structure; next_frame is 0 and second_scan
\* is false.
C17_ConstructionSetsExactly ==
    (call.op = "new" /\ RegionsDisjoint) =>
        /\ bitmap = boot.bitmap
                     \cup {last_frame}
                     \cup UNION { GapAfter(i) : i \in 1 .. Len(Regions) - 1 }
                     \cup FramesOf(boot.kernel_start, boot.kernel_end)
                     \cup FramesOf(boot.multiboot_start, boot.multiboot_end)
        /\ next_frame = 0
        /\ second_scan = FALSE

\* new() on a bitmap with bits set, for two disjoint regions with a frame
\* between them that only the gap marking covers.
C17_Witness ==
    /\ call.op = "new" /\ RegionsDisjoint
    /\ boot.bitmap # {}
    /\ Len(Regions) = 2
    /\ GapAfter(1) \ (boot.bitmap \cup {last_frame}
                       \cup FramesOf(boot.kernel_start, boot.kernel_end)
                       \cup FramesOf(boot.multiboot_start,
                                     boot.multiboot_end)) # {}

\* ---------------------------------------------------------------- C18
\* A loop iteration of allocate_frame is about to look at the block of
\* next_frame, and that block is not full.
ScansBlock ==
    /\ call.op = "loop"
    /\ ~(next_frame >= last_frame)
    /\ ~block_is_used(bitmap, get_block_number(next_frame))

\* The free frames of the block of next_frame from next_frame on.
FreeAhead ==
    { f \in BlockFrames(get_block_number(next_frame)) :
        f >= next_frame /\ ~frame_is_used(bitmap, f) }

\* C18 as stated: whenever find_free_frame_in_block finds the block of
\* next_frame not full, its scan returns Some (the None after the while
\* loop is never reached).
C18_FallbackUnreachable ==
    ScansBlock =>
        find_free_frame_in_block(bitmap, next_frame,
                                 get_block_number(next_frame)).frame # None

\* C18 amended: when the block of next_frame is not full, the scan returns
\* the lowest free frame of the block at or above next_frame if there is
\* one; the None after the while loop is reached exactly when every free
\* frame of the block lies below next_frame, and then the bitmap stays,
\* the call goes on and next_frame is the first frame of the next block.
C18_FallbackOnlyBehindCursor ==
    [][ ScansBlock =>
          IF FreeAhead = {}
          THEN /\ call'.op = "loop"
               /\ bitmap' = bitmap
               /\ next_frame' =
                      first_frame_in_block(get_block_number(next_frame) + 1)
          ELSE /\ call' = [op |-> "allocate", frame |-> Lowest(FreeAhead)]
               /\ bitmap' = bitmap \cup {Lowest(FreeAhead)} ]_vars

\* A loop iteration is about to scan a block that is not full and whose
\* free frames all lie below next_frame.
C18_Witness == ScansBlock /\ FreeAhead = {}

\* ---------------------------------------------------------------- C19
\* C19: a call of allocate_frame that returns None changes no bit and
\* leaves second_scan false and next_frame >= last_frame; and a call that
\* starts in such a state (deallocate_frame changes neither) goes through
\* the frames from 0 on: it returns the lowest free frame below last_frame
\* if there is one.
C19_ExhaustionResets ==
    [][ /\ AllocFailed' =>
             /\ bitmap' = bitmap
             /\ second_scan' = FALSE
             /\ next_frame' >= last_frame
        /\ (call'.op = "allocate" /\ ~second_scan
                /\ next_frame >= last_frame
                /\ FreeIn(0, last_frame) # {}) =>
             call'.frame = Lowest(FreeIn(0, last_frame)) ]_vars

\* allocate_frame returned None from a map of more than one block, then a
\* frame below last_frame was freed.
C19_Witness ==
    /\ call.op = "deallocate" /\ ~panicked
    /\ ~second_scan
    /\ next_frame >= last_frame
    /\ last_frame > BITS_PER_BLOCK
    /\ FreeIn(0, last_frame) = {call.frame}
    /\ FreeIn(last_frame, next_frame) = {}

\* ---------------------------------------------------------------- C20
\* C20: in runs without deallocate_frame, between calls every frame below
\* next_frame has its bit set, and after allocate_frame returned Some(f)
\* next_frame is f + 1.
C20_CursorInvariant ==
    /\ \A f \in 0 .. next_frame - 1 : frame_is_used(bitmap, f)
    /\ AllocReturned => next_frame = call.frame + 1

\* allocate_frame returned a frame past a block it found full.
C20_Witness ==
    /\ AllocReturned
    /\ call.frame >= BITS_PER_BLOCK
    /\ next_frame = call.frame + 1
    /\ block_is_used(bitmap, 0)

====
